---- MODULE Spec2Model ----
(***************************************************************************)
(* HierarchicalPcb: the sheet tree with its check marks (hdata.py), the    *)
(* run dialog that edits them (interface/DlgHPCBRun.py) and the placement  *)
(* engine that replicates a sub-PCB onto every checked sheet               *)
(* (placement.py).                                                         *)
(*                                                                         *)
(* Conventions.  A sheet is a number; its sheetid is that number, so the   *)
(* lexicographic order of sorted(children.items()) is the numeric order.   *)
(* A path "/a/b" is the sequence <<a, b>> and "" is <<>>; string           *)
(* concatenation of an identifier and a footprint path is \o.  A footprint *)
(* reference "U1" is the sequence <<"U", "1">> of its characters.          *)
(* Python's None is the string "None".                                     *)
(***************************************************************************)
EXTENDS Integers, Sequences, FiniteSets, TLC

VARIABLES
    parent,           \* SchSheet.parent     (the root is its own parent: None)
    pcb,              \* SchSheet.pcb        (a room id, or "None")
    checked,          \* SchSheet.checked
    list_ref,         \* SchSheet.list_ref   (TRUE: the sheet has a tree item)
    selected_anchor,  \* PCBRoom.selected_anchor (index into the room's footprints, 0: None)
    phase,            \* where RunActual is: "built", "loaded", "dialog", "running", "ran"
    lastOp,           \* the operation that ran last
    raised,           \* the exception the last operation ended with, or "None"
    name,             \* SchSheet.name (the sheet name the footprints carry)
    fps,              \* the target board's footprints, by path (fp_lookup)
    items,            \* the target board's tracks, zones and drawings
    groups,           \* the names of the target board's groups (GroupManager.groups)
    errors,           \* enforce_position's local list `errors`
    errSheet,         \* for each entry of errors, the sheet whose iteration appended it
    cursor,           \* position of enforce_position's loop in tree_iter
    outcome,          \* per sheet, how the current run's iteration for it ended
    ret,              \* what the last enforce_position call returned
    runs,             \* enforce_position calls completed
    after1,           \* the board as the first completed run left it
    log,              \* what the last dialog event handler wrote to the logger
    arg,              \* the arguments of a call made on its own (a room, a transform)
    result            \* what that call returned or left behind

selVars == <<parent, pcb, checked, list_ref, selected_anchor, phase, lastOp, raised, log>>

board == <<fps, items, groups>>

synVars == <<name, fps, items, groups, errors, errSheet, cursor, outcome, ret, runs, after1,
              arg, result>>

vars == <<selVars, synVars>>

----------------------------------------------------------------------------
(* Bounds *)

MaxNodes == 3

MaxRuns == 2

----------------------------------------------------------------------------
(* The sheet tree: hdata.py, class SchSheet *)

Root == 0

Nodes == 0 .. (MaxNodes - 1)

\* A tree as get_sheet_hierarchy builds it: every sheet but the root hangs
\* under a sheet created before it.
TreeShapes ==
    {p \in [Nodes -> Nodes] : p[Root] = Root /\ \A n \in Nodes \ {Root} : p[n] < n}

sheetid(n) == n

children(n) == {c \in Nodes \ {Root} : parent[c] = n}

RECURSIVE Ancestors(_)
Ancestors(n) == IF n = Root THEN {} ELSE {parent[n]} \cup Ancestors(parent[n])

\* SchSheet.identifier: parent.identifier + "/" + sheetid, the root's is "".
RECURSIVE identifier(_)
identifier(n) == IF n = Root THEN <<>> ELSE Append(identifier(parent[n]), sheetid(n))

RECURSIVE SortedSeq(_)
SortedSeq(S) ==
    IF S = {} THEN <<>>
    ELSE LET m == CHOOSE x \in S : \A y \in S : x <= y
         IN <<m>> \o SortedSeq(S \ {m})

\* SchSheet.tree_iter: the sheet, then each child's subtree, children sorted.
RECURSIVE tree_iter(_)
RECURSIVE tree_iter_children(_)
tree_iter_children(cs) ==
    IF cs = <<>> THEN <<>> ELSE tree_iter(Head(cs)) \o tree_iter_children(Tail(cs))
tree_iter(n) == <<n>> \o tree_iter_children(SortedSeq(children(n)))

----------------------------------------------------------------------------
(* The rooms: hdata.py, class PCBRoom.  The template boards are fixed:     *)
(*   R0  an empty board;                                                   *)
(*   RE  a board whose only footprint has no path (a logo, a hole);        *)
(*   RL  a board with two footprints, a track, a zone and a drawing.       *)

RoomIds == {"R0", "RE", "RL"}

\* subboard.GetFootprints(), in the board's enumeration order.
RoomFootprints(r) ==
    CASE r = "RL" ->
           << [ref |-> <<"R", "1">>, path |-> <<11>>, area |-> 1,
               pos |-> <<3, 1>>, orient |-> 0, flipped |-> FALSE],
              [ref |-> <<"U", "1">>, path |-> <<10>>, area |-> 4,
               pos |-> <<1, 1>>, orient |-> 0, flipped |-> FALSE] >>
      [] r = "RE" ->
           << [ref |-> <<"H", "1">>, path |-> <<>>, area |-> 2,
               pos |-> <<0, 0>>, orient |-> 0, flipped |-> FALSE] >>
      [] OTHER -> << >>

\* PCBRoom.get_anchor_refs: the footprints that have a path, keyed by path.
get_anchor_refs(r) ==
    {i \in DOMAIN RoomFootprints(r) : RoomFootprints(r)[i].path # <<>>}

\* PCBRoom.is_legal
is_legal(r) == Cardinality(get_anchor_refs(r)) > 0

\* `sheet.pcb and sheet.pcb.is_legal`
HasLegalPcb(n) == pcb[n] # "None" /\ is_legal(pcb[n])

Digits == {"0", "1", "2", "3", "4", "5", "6", "7", "8", "9"}

\* Character order of the references used here (digits sort before letters).
Alphabet == <<"0", "1", "2", "3", "4", "5", "6", "7", "8", "9",
              "H", "R", "U", "X">>

Ord(c) == CHOOSE i \in DOMAIN Alphabet : Alphabet[i] = c

\* str < str
RECURSIVE StrLess(_, _)
StrLess(a, b) ==
    IF b = <<>> THEN FALSE
    ELSE IF a = <<>> THEN TRUE
    ELSE IF Ord(Head(a)) # Ord(Head(b)) THEN Ord(Head(a)) < Ord(Head(b))
    ELSE StrLess(Tail(a), Tail(b))

\* prefix(s) = s.rstrip(string.digits)
RECURSIVE prefix(_)
prefix(s) ==
    IF s # <<>> /\ s[Len(s)] \in Digits THEN prefix(SubSeq(s, 1, Len(s) - 1)) ELSE s

\* tuple < tuple for (-area, prefixes[prefix(ref)], ref)
HeurLess(t, u) ==
    \/ t[1] < u[1]
    \/ t[1] = u[1] /\ t[2] < u[2]
    \/ t[1] = u[1] /\ t[2] = u[2] /\ StrLess(t[3], u[3])

HeurTuple(fpl, i) ==
    << 0 - fpl[i].area,
       Cardinality({j \in DOMAIN fpl : prefix(fpl[j].ref) = prefix(fpl[i].ref)}),
       fpl[i].ref >>

\* A variant of the heuristic that takes the first footprint of the largest
\* area.
heuristic_first_largest(fpl) ==
    IF fpl = <<>> THEN [raised |-> "ValueError", ref |-> <<>>]
    ELSE LET big  == {i \in DOMAIN fpl : \A j \in DOMAIN fpl : fpl[j].area <= fpl[i].area}
             best == CHOOSE i \in big : \A j \in big : i <= j
         IN [raised |-> "None", ref |-> fpl[best].ref]

\* PCBRoom.get_heuristic_anchor_ref over the footprint list fps: min() of the
\* heuristic tuples; min() of an empty list raises ValueError.
heuristic_of(fpl) ==
    IF fpl = <<>> THEN [raised |-> "ValueError", ref |-> <<>>]
    ELSE LET best == CHOOSE i \in DOMAIN fpl :
                        \A j \in DOMAIN fpl : ~HeurLess(HeurTuple(fpl, j), HeurTuple(fpl, i))
         IN [raised |-> "None", ref |-> fpl[best].ref]

get_heuristic_anchor_ref(r) == heuristic_of(RoomFootprints(r))

\* A variant of set_anchor_ref that forgets the anchor when no footprint has
\* the reference.
set_anchor_of_or_none(fpl, ref, old) ==
    LET hits == {i \in DOMAIN fpl : fpl[i].ref = ref}
    IN IF hits = {} THEN 0 ELSE CHOOSE i \in hits : \A j \in hits : i <= j

\* PCBRoom.set_anchor_ref over the footprint list fpl: the first footprint with
\* that reference becomes the anchor; when there is none a warning is logged
\* and the anchor stays `old`.
set_anchor_of(fpl, ref, old) ==
    LET hits == {i \in DOMAIN fpl : fpl[i].ref = ref}
    IN IF hits = {} THEN old ELSE CHOOSE i \in hits : \A j \in hits : i <= j

set_anchor_ref(r, ref, old) == set_anchor_of(RoomFootprints(r), ref, old)

\* HierarchicalData.pcb_rooms: the rooms some sheet is bound to.
pcb_rooms == {pcb[n] : n \in Nodes} \ {"None"}

----------------------------------------------------------------------------
(* The check marks: SchSheet.set_checked_default / cleanup_checked and the *)
(* dialog's set_checked_default / is_checkable.                            *)

\* SchSheet.set_checked_default(self, ancestor_checked) on sheet n, starting
\* from the check marks chk.  The recursion is written
\*     child.set_checked_default(child, self.checked or ancestor_checked)
\* which passes three positional arguments to a method that takes two: the
\* first child raises TypeError, after the sheet's own mark has been set.
SchSheet_set_checked_default(n, ancestor_checked, chk) ==
    LET own == [chk EXCEPT ![n] = HasLegalPcb(n) /\ ~ancestor_checked]
    IN [checked |-> own,
        raised  |-> IF children(n) = {} THEN "None" ELSE "TypeError"]

\* SchSheet.cleanup_checked(self, ancestor_checked): the same call on the
\* first child, so the same TypeError when the sheet has children.
cleanup_checked(n, ancestor_checked, chk) ==
    LET own == IF ancestor_checked THEN [chk EXCEPT ![n] = FALSE] ELSE chk
    IN [checked |-> own,
        raised  |-> IF children(n) = {} THEN "None" ELSE "TypeError"]

\* DlgHPCBRun.set_checked_default(tree, sheet): the sheet alone, no recursion.
set_checked_default(n, chk) ==
    [chk EXCEPT ![n] = list_ref[n] /\ HasLegalPcb(n)]

\* The while loop of is_checkable, started at sheet.parent: it ends at the
\* first ancestor that is None or has no list_ref.
RECURSIVE NoCheckedItemAbove(_)
NoCheckedItemAbove(n) ==
    IF n = Root THEN TRUE
    ELSE IF ~list_ref[parent[n]] THEN TRUE
    ELSE IF checked[parent[n]] THEN FALSE
    ELSE NoCheckedItemAbove(parent[n])

\* DlgHPCBRun.is_checkable(tree, sheet)
is_checkable(n) == HasLegalPcb(n) /\ NoCheckedItemAbove(n)

\* The logger.info lines of the while loop of is_checkable, one per ancestor
\* the loop looks at: f"Checking {node.identifier}: {node.checked}."
RECURSIVE CheckingLines(_)
CheckingLines(n) ==
    IF n = Root THEN << >>
    ELSE IF ~list_ref[parent[n]] THEN << >>
    ELSE << <<identifier(parent[n]), checked[parent[n]]>> >> \o
         (IF checked[parent[n]] THEN << >> ELSE CheckingLines(parent[n]))

\* What a call of is_checkable(tree, sheet) writes to the logger.
is_checkable_log(n) == IF HasLegalPcb(n) THEN CheckingLines(n) ELSE << >>

----------------------------------------------------------------------------
(* RunActual up to the dialog: HierarchicalData.load, DlgHPCBRun.__init__, *)
(* and the dialog's event handlers.                                        *)

\* What the config file can hold under subpcb.<path>.anchor: no entry (the
\* heuristic default is used), or a reference.
CfgAnchors == {<<>>, <<"R", "1">>, <<"X", "9">>}

\* The config, config[section][key][field] with one field per section
\* ("anchor" under "subpcb", "checked" under "sheet"), is written
\* cfg[section][key].  A value is a JSON value.
Null == [json |-> "null"]

JsonOf(v) == [json |-> "value", v |-> v]

EmptyDict == [k \in {} |-> Null]

\* ConfigMan.get(section, key, field, default=...): the default when a key is
\* missing on the way or the value found is None.
cfg_get(cfg, section, k, default) ==
    IF k \in DOMAIN cfg[section] /\ cfg[section][k] # Null
    THEN cfg[section][k].v ELSE default

\* ConfigMan.clear(section)
cfg_clear(cfg, section) == [cfg EXCEPT ![section] = EmptyDict]

\* ConfigMan.set(section, key, field, value=values[key]) for every key of
\* values.
cfg_set_each(cfg, section, values) ==
    [cfg EXCEPT ![section] =
        [k \in DOMAIN @ \cup DOMAIN values |-> IF k \in DOMAIN values THEN values[k] ELSE @[k]]]

\* A config file as an earlier session or the user left it: the same anchor
\* reference a for every room (none when a is empty) and the marks c.
ConfigFile(a, c) ==
    [subpcb |-> IF a = << >> THEN EmptyDict ELSE [r \in RoomIds |-> JsonOf(a)],
     sheet  |-> [k \in {identifier(n) : n \in Nodes} |->
                    JsonOf(c[CHOOSE n \in Nodes : identifier(n) = k])]]

\* HierarchicalData.load(cfg).  The default of cfg.get is evaluated for every
\* room, so an empty room ends the load with min()'s ValueError; the rooms
\* the loop reached before it have their anchor set.  Then every sheet's mark
\* is read from the config, and cleanup_checked runs on the loop variable
\* `sheet`, which is the last sheet of tree_iter.
load(cfg) ==
    LET anchorOf(r) ==
            set_anchor_ref(r,
                cfg_get(cfg, "subpcb", r, get_heuristic_anchor_ref(r).ref),
                selected_anchor[r])
        order == tree_iter(Root)
        res   == cleanup_checked(order[Len(order)], FALSE,
                     [n \in Nodes |-> cfg_get(cfg, "sheet", identifier(n), FALSE)])
    IN IF \E r \in pcb_rooms : get_heuristic_anchor_ref(r).raised # "None"
       THEN /\ \E before \in SUBSET {r \in pcb_rooms :
                              get_heuristic_anchor_ref(r).raised = "None"} :
                 selected_anchor' =
                     [r \in RoomIds |-> IF r \in before THEN anchorOf(r)
                                        ELSE selected_anchor[r]]
            /\ raised' = "ValueError"
            /\ phase' = "crashed"
            /\ UNCHANGED checked
       ELSE /\ selected_anchor' =
                     [r \in RoomIds |-> IF r \in pcb_rooms THEN anchorOf(r)
                                        ELSE selected_anchor[r]]
            /\ checked' = res.checked
            /\ raised' = res.raised
            /\ phase' = "loaded"

\* RunActual: hD.load(cfg), on the config file as it is.
Load ==
    /\ phase = "built"
    /\ lastOp' = "load"
    /\ \E a \in CfgAnchors, c \in [Nodes -> BOOLEAN] : load(ConfigFile(a, c))
    /\ UNCHANGED <<parent, pcb, list_ref, log, synVars>>

\* DlgHPCBRun.__init__: one tree item per child of the root sheet.
DlgInit ==
    /\ phase = "loaded"
    /\ list_ref' = [n \in Nodes |-> n # Root /\ parent[n] = Root]
    /\ phase' = "dialog"
    /\ lastOp' = "DlgInit"
    /\ raised' = "None"
    /\ UNCHANGED <<parent, pcb, checked, selected_anchor, log, synVars>>

\* DlgHPCBRun.handleSelection on the tree item of sheet n.
handleSelection(n) ==
    /\ phase = "dialog"
    /\ list_ref[n]
    /\ checked' = IF is_checkable(n)
                  THEN IF checked[n] THEN [checked EXCEPT ![n] = FALSE]
                       ELSE set_checked_default(n, checked)
                  ELSE checked
    /\ log' = is_checkable_log(n)
    /\ lastOp' = "handleSelection"
    /\ raised' = "None"
    /\ UNCHANGED <<parent, pcb, list_ref, selected_anchor, phase, synVars>>

\* DlgHPCBRun.resetToDefault
resetToDefault ==
    /\ phase = "dialog"
    /\ checked' = set_checked_default(Root, checked)
    /\ log' = << >>
    /\ lastOp' = "resetToDefault"
    /\ raised' = "None"
    /\ UNCHANGED <<parent, pcb, list_ref, selected_anchor, phase, synVars>>

\* SchSheet.set_checked_default called on the root sheet.
applyDefaults ==
    /\ phase = "dialog"
    /\ LET res == SchSheet_set_checked_default(Root, FALSE, checked)
       IN checked' = res.checked /\ raised' = res.raised
    /\ lastOp' = "SchSheet.set_checked_default"
    /\ UNCHANGED <<parent, pcb, list_ref, selected_anchor, phase, log, synVars>>

----------------------------------------------------------------------------
(* The target board and the templates' contents (the pcbnew objects that   *)
(* placement.py reads and writes).                                         *)

\* Footprint ids used below the sheets of the target board: 10 and 11 are
\* the instances of RL's U1 and R1, 12 is a footprint no template has.
LocalIds == {10, 11, 12}

\* SchSheet.name is None
NoName == 0 - 1

\* SchSheet.human_name: the sheet name, else the first characters of the id.
human_name(n) == IF name[n] # NoName THEN name[n] ELSE sheetid(n)

\* SchSheet.human_path
RECURSIVE human_path(_)
human_path(n) ==
    IF n = Root THEN <<human_name(n)>> ELSE Append(human_path(parent[n]), human_name(n))

\* group_name = f"subpcb_{sheet.human_path}"
group_name(n) == human_path(n)

\* item.GetParentGroup() is None
NoGroup == << >>

\* A group that is no sheet's.
ForeignGroup == << 999 >>

\* The name of the net that is local to sheet n on the target board: the
\* net's name in the sheet's schematic behind the sheet's path.
LocalNet(n) == << "/1/N1", "/2/N1", "/3/N1", "/4/N1", "/5/N1" >>[n]

\* The nets of the target board (board.FindNet by name); FindNet(0) is the
\* unconnected net, whose name is empty.
BoardNets == {"GND"} \cup {LocalNet(n) : n \in Nodes \ {Root}}

\* subboard.Tracks()
RoomTracks(r) ==
    IF r = "RL"
    THEN << [start |-> <<1, 1>>, end |-> <<3, 1>>, net |-> "GND"],
            [start |-> <<3, 1>>, end |-> <<3, 3>>, net |-> "N1"] >>
    ELSE << >>

\* subboard.GetDrawings()
RoomDrawings(r) == IF r = "RL" THEN << [pos |-> <<2, 2>>] >> ELSE << >>

\* subboard.Zones()
RoomZones(r) == IF r = "RL" THEN << [pos |-> <<0, 4>>, net |-> "GND"] >> ELSE << >>

ERROR == 2

WARNING == 1

\* ReportedError.sheet is None (no call of placement.py passes sheet=).
NoSheet == 0 - 1

\* ReportedError.__init__: level defaults to ERROR, the other fields to None
\* (<<>> for message and footprint, NoSheet for sheet).
ReportedError(title, message, level, footprint, sheet, room) ==
    [title |-> title, message |-> message, level |-> level,
     footprint |-> footprint, sheet |-> sheet, pcb |-> room]

----------------------------------------------------------------------------
(* PositionTransform.  A transform keeps the template's anchor footprint   *)
(* and a reference to the target's anchor footprint: t is the former, m    *)
(* the path of the latter, read from the board whenever it is used.        *)
(* Orientations are whole degrees, multiples of 90.  translate computes in *)
(* double precision and truncates with int(): math.radians(90) is not      *)
(* pi/2, so the sine or cosine that should be 0 is a small number, and the *)
(* sum can fall just short of the whole number it stands for.  A double    *)
(* is written here as a whole number plus a rest counted in units of       *)
(* 2^-58 / 1000.                                                           *)

Norm360(a) == a % 360

\* The whole part of math.sin(math.radians(a)) and math.cos(math.radians(a)).
Sin(a) == CASE Norm360(a) = 90 -> 1 [] Norm360(a) = 270 -> 0 - 1 [] OTHER -> 0

Cos(a) == CASE Norm360(a) = 0 -> 1 [] Norm360(a) = 180 -> 0 - 1 [] OTHER -> 0

\* math.cos(math.radians(90)) = 6.123233995736766e-17
Eps90 == 17649

\* math.sin(math.radians(180)) = 1.2246467991473532e-16
Eps180 == 35298

\* math.cos(math.radians(270)) = -1.8369701987210297e-16
Eps270 == 52947

\* The rest of math.sin(math.radians(a)), for a in -270 .. 270.
SinRest(a) == CASE a = 180 -> Eps180 [] a = 0 - 180 -> 0 - Eps180 [] OTHER -> 0

\* The rest of math.cos(math.radians(a)), for a in -270 .. 270.
CosRest(a) ==
    CASE a = 90 \/ a = 0 - 90 -> Eps90
      [] a = 270 \/ a = 0 - 270 -> 0 - Eps270
      [] OTHER -> 0

Sgn(x) == IF x > 0 THEN 1 ELSE IF x < 0 THEN 0 - 1 ELSE 0

Abs(x) == IF x < 0 THEN 0 - x ELSE x

RECURSIVE Pow2(_)
Pow2(k) == IF k = 0 THEN 1 ELSE 2 * Pow2(k - 1)

\* The exponent of the double n >= 1.
RECURSIVE Log2Floor(_)
Log2Floor(n) == IF n < 2 THEN 0 ELSE 1 + Log2Floor(n \div 2)

\* The distance between neighbouring doubles next to the whole number n # 0,
\* on the side the rest r points to, p being the power of two at or below
\* |n|: 2^-52 times p, and half of that just below p.
SpacingAt(n, r, p) ==
    IF Abs(n) = p /\ Sgn(r) = 0 - Sgn(n) THEN 32000 * p ELSE 64000 * p

Spacing(n, r) == SpacingAt(n, r, Pow2(Log2Floor(Abs(n))))

\* Ties to even: q whole spacings and m left over of the spacing g.
NearestEven(q, m, g) ==
    IF 2 * m > g THEN q + 1 ELSE IF 2 * m = g THEN q + (q % 2) ELSE q

\* Round to nearest, ties to even: the rest r as a multiple of the spacing g.
RoundToNearest(r, g) ==
    Sgn(r) * NearestEven(Abs(r) \div g, Abs(r) % g, g) * g

\* The rest r next to the whole number n, as a double keeps it: a double near
\* zero keeps it all.
Rounded(n, r) == IF n = 0 THEN r ELSE RoundToNearest(r, Spacing(n, r))

\* int() of the double with whole part S and rest r: towards zero.
Truncate(S, r) == IF r # 0 /\ Sgn(r) = 0 - Sgn(S) THEN S - Sgn(S) ELSE S

\* int((n + r) + M) in double precision: n the whole part and r the rest of
\* the first sum, M the anchor's coordinate.
IntOfSum(n, r, M) == Truncate(n + M, Rounded(n + M, Rounded(n, r)))

\* A variant of translate that turns by the target anchor's orientation
\* alone, leaving the template anchor's out.
translate_by_target(t, m, F, p) ==
    LET delta_x  == p[1] - t.pos[1]
        delta_y  == p[2] - t.pos[2]
        rotation == F[m].orient
    IN << IntOfSum(delta_y * Sin(rotation) + delta_x * Cos(rotation),
                   delta_y * SinRest(rotation) + delta_x * CosRest(rotation),
                   F[m].pos[1]),
          IntOfSum(delta_y * Cos(rotation) - delta_x * Sin(rotation),
                   delta_y * CosRest(rotation) - delta_x * SinRest(rotation),
                   F[m].pos[2]) >>

\* PositionTransform.translate
translate(t, m, F, p) ==
    LET delta_x  == p[1] - t.pos[1]
        delta_y  == p[2] - t.pos[2]
        rotation == F[m].orient - t.orient
    IN << IntOfSum(delta_y * Sin(rotation) + delta_x * Cos(rotation),
                   delta_y * SinRest(rotation) + delta_x * CosRest(rotation),
                   F[m].pos[1]),
          IntOfSum(delta_y * Cos(rotation) - delta_x * Sin(rotation),
                   delta_y * CosRest(rotation) - delta_x * SinRest(rotation),
                   F[m].pos[2]) >>

\* A variant of PositionTransform.orient that leaves the target anchor's
\* rotation out: the template's rotation relative to the template's anchor.
orient_without_target(t, m, F, rot_template) == rot_template - t.orient

\* PositionTransform.orient
orient(t, m, F, rot_template) == rot_template - t.orient + F[m].orient

\* FOOTPRINT.Flip(own position, False): the side changes, the orientation is
\* mirrored, the position stays.
Flip(f) == [f EXCEPT !.flipped = ~f.flipped, !.orient = Norm360(0 - f.orient)]

\* A variant of PositionTransform.footprint that flips without comparing the
\* sides.
footprint_always_flips(t, m, F, fp_template, path) ==
    LET F1 == [F EXCEPT ![path] = Flip(F[path])]
        F2 == [F1 EXCEPT ![path].pos = translate(t, m, F1, fp_template.pos)]
    IN [F2 EXCEPT ![path].orient = Norm360(orient(t, m, F2, fp_template.orient))]

\* PositionTransform.footprint: flip when the sides differ, then SetPosition,
\* then SetOrientation, each reading the anchors as they are at that moment.
footprint(t, m, F, fp_template, path) ==
    LET F1 == IF fp_template.flipped # F[path].flipped
              THEN [F EXCEPT ![path] = Flip(F[path])] ELSE F
        F2 == [F1 EXCEPT ![path].pos = translate(t, m, F1, fp_template.pos)]
    IN [F2 EXCEPT ![path].orient = Norm360(orient(t, m, F2, fp_template.orient))]

----------------------------------------------------------------------------
(* GroupManager and the clear_* / copy_* helpers of placement.py.  A board *)
(* item carries its parent group's name; RemoveNative takes the item off   *)
(* the board and out of its group.                                         *)

\* GroupManager.create_or_get
create_or_get(G, gname) == G \cup {gname}

\* GroupManager.move: the return value (was the item in another group?)
move_moved(parent_group, gname) == parent_group # NoGroup /\ parent_group # gname

\* A variant of GroupManager.move that adds the item only when it is in no
\* group: an item of another group stays there.
move_group_unless_grouped(parent_group, gname) ==
    IF parent_group = NoGroup THEN gname ELSE parent_group

\* GroupManager.move: the group the item is in afterwards
move_group(parent_group, gname) == gname

\* board.RemoveNative(item) for every item of group.GetItems() whose type is
\* one of `types`.  B is the board's [fps, items]; the members of a group are
\* the footprints and the tracks, zones and drawings that are in it.
remove_group_items(B, gname, types) ==
    [fps   |-> [q \in {x \in DOMAIN B.fps :
                         ~(B.fps[x].group = gname /\ "footprint" \in types)} |-> B.fps[q]],
     items |-> SelectSeq(B.items, LAMBDA it : ~(it.group = gname /\ it.kind \in types))]

\* A variant of clear_drawings without the isinstance test: every item of
\* the group is taken off the board.
clear_drawings_untyped(B, gname) ==
    remove_group_items(B, gname, {"footprint", "track", "zone", "drawing"})

\* clear_traces: isinstance(item, (PCB_TRACK, ZONE))
clear_traces(B, gname) == remove_group_items(B, gname, {"track", "zone"})

\* clear_drawings: isinstance(item.Cast(), (PCB_SHAPE, PCB_TEXT))
clear_drawings(B, gname) == remove_group_items(B, gname, {"drawing"})

\* clear_zones: isinstance(item.Cast(), ZONE)
clear_zones(B, gname) == remove_group_items(B, gname, {"zone"})

\* find_or_set_net: the board's net of that name, else net 0
find_or_set_net(netname) == IF netname \in BoardNets THEN netname ELSE ""

\* copy_traces: the duplicates added to the board, already moved into the group
copy_traces(r, t, m, F, gname) ==
    [i \in DOMAIN RoomTracks(r) |->
        [kind |-> "track", group |-> move_group(NoGroup, gname),
         net |-> find_or_set_net(RoomTracks(r)[i].net),
         a |-> translate(t, m, F, RoomTracks(r)[i].start),
         b |-> translate(t, m, F, RoomTracks(r)[i].end),
         rot |-> 0]]

\* copy_drawings
copy_drawings(r, t, m, F, gname) ==
    [i \in DOMAIN RoomDrawings(r) |->
        [kind |-> "drawing", group |-> move_group(NoGroup, gname),
         net |-> "",
         a |-> translate(t, m, F, RoomDrawings(r)[i].pos),
         b |-> translate(t, m, F, RoomDrawings(r)[i].pos),
         rot |-> Norm360(orient(t, m, F, 0))]]

\* copy_zones: moved to the origin, then to the translated position
copy_zones(r, t, m, F, gname) ==
    [i \in DOMAIN RoomZones(r) |->
        [kind |-> "zone", group |-> move_group(NoGroup, gname),
         net |-> RoomZones(r)[i].net,
         a |-> translate(t, m, F, RoomZones(r)[i].pos),
         b |-> translate(t, m, F, RoomZones(r)[i].pos),
         rot |-> Norm360(orient(t, m, F, 0))]]

\* A variant of enforce_position_footprints in which a footprint that is not
\* found ends the loop, the footprints after it left where they are.
RECURSIVE enforce_position_footprints_stops(_, _, _, _, _, _)
enforce_position_footprints_stops(n, t, m, gname, i, S) ==
    LET r == pcb[n]
    IN IF i > Len(RoomFootprints(r)) THEN S
       ELSE LET fp      == RoomFootprints(r)[i]
                fp_path == identifier(n) \o fp.path
            IN IF fp_path \notin DOMAIN S.fps
               THEN [S EXCEPT !.errs = Append(@,
                        ReportedError("footprint not found, skipping", fp.ref,
                                      WARNING, fp.ref, NoSheet, r))]
               ELSE LET F1    == footprint(t, m, S.fps, fp, fp_path)
                        moved == move_moved(F1[fp_path].group, gname)
                        F2    == [F1 EXCEPT ![fp_path].group = move_group(@, gname)]
                    IN enforce_position_footprints_stops(n, t, m, gname, i + 1,
                         [fps  |-> F2,
                          errs |-> IF moved
                                   THEN Append(S.errs,
                                        ReportedError("footprint is in the wrong group",
                                                      <<>>, ERROR, <<>>, NoSheet, r))
                                   ELSE S.errs])

\* enforce_position_footprints, from the i-th footprint of the room on.  S is
\* [fps, errs]: the board's footprints and the errors of this call so far.
RECURSIVE enforce_position_footprints(_, _, _, _, _, _)
enforce_position_footprints(n, t, m, gname, i, S) ==
    LET r == pcb[n]
    IN IF i > Len(RoomFootprints(r)) THEN S
       ELSE LET fp      == RoomFootprints(r)[i]
                fp_path == identifier(n) \o fp.path
            IN IF fp_path \notin DOMAIN S.fps
               THEN enforce_position_footprints(n, t, m, gname, i + 1,
                        [S EXCEPT !.errs = Append(@,
                            ReportedError("footprint not found, skipping", fp.ref,
                                          WARNING, fp.ref, NoSheet, r))])
               ELSE LET F1    == footprint(t, m, S.fps, fp, fp_path)
                        moved == move_moved(F1[fp_path].group, gname)
                        F2    == [F1 EXCEPT ![fp_path].group = move_group(@, gname)]
                    IN enforce_position_footprints(n, t, m, gname, i + 1,
                         [fps  |-> F2,
                          errs |-> IF moved
                                   THEN Append(S.errs,
                                        ReportedError("footprint is in the wrong group",
                                                      <<>>, ERROR, <<>>, NoSheet, r))
                                   ELSE S.errs])

----------------------------------------------------------------------------
(* enforce_position: one iteration of its loop over tree_iter, for sheet n *)
(* on the board <<F, I, G>>.  The result is the board afterwards, the      *)
(* errors the iteration appended and how it ended: "skipped" (the sheet    *)
(* has no sub-PCB or is not checked), "error" (a `continue` after an       *)
(* error) or "placed".                                                     *)

\* A variant of the error exits that are taken only after
\* groupman.create_or_get(group_name): the sheet's group is on the board
\* although the sheet was not placed.
skip_sheet_creates_group(n, F, I, G, err) ==
    [fps |-> F, items |-> I, groups |-> create_or_get(G, group_name(n)),
     errs |-> <<err>>, outcome |-> "error"]

\* errors.append(ReportedError(...)); continue
skip_sheet(n, F, I, G, err) ==
    [fps |-> F, items |-> I, groups |-> G, errs |-> <<err>>, outcome |-> "error"]

\* The body after the anchor has been found on the board.
place_sheet(n, F, I, G) ==
    LET r      == pcb[n]
        t      == RoomFootprints(r)[selected_anchor[r]]
        m      == identifier(n) \o t.path
        gname  == group_name(n)
        G1     == create_or_get(G, gname)
        B1     == clear_drawings(clear_traces(clear_zones([fps |-> F, items |-> I],
                                                            gname), gname), gname)
        I1     == B1.items
        moved  == move_moved(F[m].group, gname)
        F1     == [F EXCEPT ![m].group = move_group(@, gname)]
        e1     == IF moved
                  THEN << ReportedError("anchor footprint is in the wrong group",
                                        gname, ERROR, <<>>, NoSheet, r) >>
                  ELSE << >>
        S      == enforce_position_footprints(n, t, m, gname, 1,
                                              [fps |-> F1, errs |-> << >>])
        F2     == S.fps
        I2     == I1 \o copy_traces(r, t, m, F2, gname)
        I3     == I2 \o copy_drawings(r, t, m, F2, gname)
        I4     == I3 \o copy_zones(r, t, m, F2, gname)
    IN [fps |-> [q \in DOMAIN B1.fps |-> F2[q]], items |-> I4, groups |-> G1,
        errs |-> e1 \o S.errs, outcome |-> "placed"]

enforce_position_sheet(n, F, I, G) ==
    IF ~(pcb[n] # "None" /\ checked[n])
    THEN [fps |-> F, items |-> I, groups |-> G, errs |-> << >>, outcome |-> "skipped"]
    ELSE IF ~is_legal(pcb[n])
    THEN skip_sheet(n, F, I, G,
             ReportedError("sub-PCB cannot be placed", <<>>, ERROR, <<>>, NoSheet, pcb[n]))
    ELSE IF selected_anchor[pcb[n]] = 0
    THEN skip_sheet(n, F, I, G,
             ReportedError("sub-PCB has no anchor selected", <<>>, ERROR, <<>>, NoSheet,
                           pcb[n]))
    ELSE LET anchor_path ==
                 identifier(n) \o RoomFootprints(pcb[n])[selected_anchor[pcb[n]]].path
         IN IF anchor_path \notin DOMAIN F
            THEN skip_sheet(n, F, I, G,
                     ReportedError("anchor not found on target", anchor_path, ERROR,
                                   <<>>, NoSheet, pcb[n]))
            ELSE place_sheet(n, F, I, G)

\* A variant of the loop in which an error exit is a `break`: the loop is
\* left at the first sheet that ends in an error.
loop_next_break(c, how) ==
    IF how = "error" THEN Len(tree_iter(Root)) + 1 ELSE c + 1

\* Where the loop goes after an iteration: `continue` and the end of the body
\* both go on to the next sheet of tree_iter.
loop_next(c, how) == c + 1

\* What enforce_position hands back: the function ends after pcbnew.Refresh()
\* without a return statement.
enforce_position_return(errs) == [kind |-> "None", list |-> << >>]

\* handleApply closes the dialog and RunActual calls enforce_position: the
\* lookup table, the empty error list and the group manager are set up.  A
\* further run is the same call on the same tree, marks, rooms and anchors.
StartRun ==
    /\ \/ phase = "dialog"
       \/ phase = "ran" /\ runs < MaxRuns
    /\ phase' = "running"
    /\ errors' = << >>
    /\ errSheet' = << >>
    /\ cursor' = 1
    /\ outcome' = [n \in Nodes |-> "pending"]
    /\ ret' = [kind |-> "pending", list |-> << >>]
    /\ lastOp' = "enforce_position"
    /\ raised' = "None"
    /\ UNCHANGED <<parent, pcb, checked, list_ref, selected_anchor, name,
                   fps, items, groups, runs, after1, log, arg, result>>

\* One iteration of `for sheet in hd.root_sheet.tree_iter()`.
EnforceStep ==
    /\ phase = "running"
    /\ cursor <= Len(tree_iter(Root))
    /\ LET n == tree_iter(Root)[cursor]
           R == enforce_position_sheet(n, fps, items, groups)
       IN /\ fps' = R.fps
          /\ items' = R.items
          /\ groups' = R.groups
          /\ errors' = errors \o R.errs
          /\ errSheet' = errSheet \o [i \in DOMAIN R.errs |-> n]
          /\ outcome' = [outcome EXCEPT ![n] = R.outcome]
          /\ cursor' = loop_next(cursor, R.outcome)
    /\ UNCHANGED <<selVars, name, ret, runs, after1, arg, result>>

\* The loop is over: pcbnew.Refresh() and the function's end.
EnforceFinish ==
    /\ phase = "running"
    /\ cursor > Len(tree_iter(Root))
    /\ phase' = "ran"
    /\ ret' = enforce_position_return(errors)
    /\ runs' = runs + 1
    /\ after1' = IF runs = 0 THEN [fps |-> fps, items |-> items, groups |-> groups]
                 ELSE after1
    /\ UNCHANGED <<parent, pcb, checked, list_ref, selected_anchor, lastOp, raised,
                   name, fps, items, groups, errors, errSheet, cursor, outcome,
                   log, arg, result>>

----------------------------------------------------------------------------
(* Specifications *)

\* Every sheet of these boards holds a footprint of its own, so every sheet
\* has its metadata; the sheet names are distinct.
SheetNames == [n \in Nodes |-> 100 + n]

NoBoard == [fps |-> << >>, items |-> << >>, groups |-> {}]

\* No call has been made on its own.
NoCall == [op |-> "none"]

\* RunActual after HierarchicalData(board): the tree is built, nothing is
\* checked, no anchor is chosen, the dialog does not exist yet.
Init ==
    /\ parent \in TreeShapes
    /\ pcb \in [Nodes -> RoomIds \cup {"None"}]
    /\ checked = [n \in Nodes |-> FALSE]
    /\ list_ref = [n \in Nodes |-> FALSE]
    /\ selected_anchor = [r \in RoomIds |-> 0]
    /\ phase = "built"
    /\ lastOp = "init"
    /\ raised = "None"
    /\ name = SheetNames
    /\ fps = << >>
    /\ items = << >>
    /\ groups = {}
    /\ errors = << >>
    /\ errSheet = << >>
    /\ cursor = 0
    /\ outcome = [n \in Nodes |-> "pending"]
    /\ ret = [kind |-> "pending", list |-> << >>]
    /\ runs = 0
    /\ after1 = NoBoard
    /\ log = << >>
    /\ arg = NoCall
    /\ result = NoCall

\* The dialog session: load, the dialog's construction, then any sequence of
\* clicks on tree items and on "reset to default".
Next ==
    \/ Load
    \/ DlgInit
    \/ \E n \in Nodes : handleSelection(n)
    \/ resetToDefault
    \/ applyDefaults

Spec == Init /\ [][Next]_vars

\* What load leaves for a sheet below the root: load reads any mark for any
\* sheet, so a sheet with or without a sub-PCB can be checked; an unchecked
\* sheet is taken with a legal sub-PCB.  The root sheet of these boards holds
\* no footprint of its own: it has no metadata and no sub-PCB.
SynModes ==
    { [pcb |-> "None", checked |-> TRUE], [pcb |-> "RE", checked |-> TRUE],
      [pcb |-> "RL", checked |-> TRUE],   [pcb |-> "RL", checked |-> FALSE] }

\* The target board when the run starts: the orientation and side of its
\* footprints, and whether an earlier session has left groups on it.
BoardVariants ==
    { [orient |-> 0,  flipped |-> FALSE, used |-> FALSE],
      [orient |-> 90, flipped |-> FALSE, used |-> TRUE],
      [orient |-> 90, flipped |-> TRUE,  used |-> FALSE] }

\* Where the target footprint with local id i of sheet n starts.
TargetPos(n, i) == << 10 * n + (i - 10), 20 + n >>

\* A board that no run has touched has no groups; a used one has a group per
\* sheet holding the sheet's U1 instance and a stale track, and the R1
\* instances sit in a group of the user's.
InitialGroup(n, i, used) ==
    IF ~used THEN NoGroup
    ELSE IF i = 10 THEN group_name(n)
    ELSE IF i = 11 THEN ForeignGroup
    ELSE NoGroup

UserTrack(g) ==
    [kind |-> "track", group |-> g, net |-> "GND", a |-> <<0, 0>>, b |-> <<9, 9>>,
     rot |-> 0]

RECURSIVE StaleTracks(_)
StaleTracks(ns) ==
    IF ns = << >> THEN << >>
    ELSE << UserTrack(group_name(Head(ns))) >> \o StaleTracks(Tail(ns))

\* The footprint that may be missing from the target: the U1 instance of the
\* first or of the last sheet, or the R1 instance of the first.
MaybeAbsent == { <<1, 10>>, Append(identifier(MaxNodes - 1), 10), <<1, 11>> }

\* The dialog has been closed with Apply.  The marks and anchors are what
\* load and the dialog can leave; the board is the target board.
SynInit ==
    /\ parent \in TreeShapes
    /\ \E md \in [Nodes \ {Root} -> SynModes] :
         /\ pcb = [n \in Nodes |-> IF n = Root THEN "None" ELSE md[n].pcb]
         /\ checked = [n \in Nodes |-> IF n = Root THEN FALSE ELSE md[n].checked]
    /\ list_ref = [n \in Nodes |-> n # Root /\ parent[n] = Root]
    /\ \E a \in CfgAnchors :
         selected_anchor =
             [r \in RoomIds |->
                 IF r \in pcb_rooms
                 THEN set_anchor_ref(r, IF a = <<>> THEN get_heuristic_anchor_ref(r).ref
                                        ELSE a, 0)
                 ELSE 0]
    /\ phase = "dialog"
    /\ lastOp = "DlgInit"
    /\ raised = "None"
    /\ name = [n \in Nodes |-> IF n = Root THEN NoName ELSE SheetNames[n]]
    /\ \E absent \in {{}} \cup {{q} : q \in MaybeAbsent}, bv \in BoardVariants :
         /\ fps = [q \in UNION {{Append(identifier(n), i) : i \in LocalIds} :
                                n \in Nodes \ {Root}} \ absent |->
                     LET n == CHOOSE x \in Nodes : identifier(x) = SubSeq(q, 1, Len(q) - 1)
                         i == q[Len(q)]
                     IN [pos |-> TargetPos(n, i), orient |-> bv.orient,
                         flipped |-> bv.flipped, group |-> InitialGroup(n, i, bv.used)]]
         /\ items = << UserTrack(NoGroup) >> \o
                    (IF bv.used
                     THEN << UserTrack(ForeignGroup) >> \o StaleTracks(Tail(tree_iter(Root)))
                     ELSE << >>)
         /\ groups = IF bv.used
                     THEN {ForeignGroup} \cup {group_name(n) : n \in Nodes \ {Root}}
                     ELSE {}
    /\ errors = << >>
    /\ errSheet = << >>
    /\ cursor = 0
    /\ outcome = [n \in Nodes |-> "pending"]
    /\ ret = [kind |-> "pending", list |-> << >>]
    /\ runs = 0
    /\ after1 = NoBoard
    /\ log = << >>
    /\ arg = NoCall
    /\ result = NoCall

SynNext == StartRun \/ EnforceStep \/ EnforceFinish

SpecSyn == SynInit /\ [][SynNext]_vars

----------------------------------------------------------------------------
(* Properties of the check marks *)

\* No two checked sheets are ancestor and descendant: no path from the root
\* holds more than one checked sheet.
AtMostOneCheckedPerPath ==
    \A n \in Nodes : checked[n] => \A a \in Ancestors(n) : ~checked[a]

\* The sheet is the shallowest one with a legal sub-PCB on its path.
ShallowestLegal(n) == HasLegalPcb(n) /\ \A a \in Ancestors(n) : ~HasLegalPcb(a)

DefaultsJustRan == lastOp \in {"resetToDefault", "SchSheet.set_checked_default"}

\* C1: after reset-to-default (DlgHPCBRun.resetToDefault, or
\* SchSheet.set_checked_default on the root) no two checked sheets are
\* ancestor and descendant, whatever was checked before.
C1_DefaultsLeaveAtMostOnePerPath == DefaultsJustRan => AtMostOneCheckedPerPath

\* C2: after reset-to-default a sheet is checked exactly when it has a legal
\* sub-PCB and no proper ancestor has one.
C2_DefaultsCheckShallowestLegal ==
    DefaultsJustRan => \A n \in Nodes : checked[n] <=> ShallowestLegal(n)

\* C8: whatever load, reset-to-default and clicks have done, a checked sheet
\* has a sub-PCB and the sub-PCB is legal.
C8_CheckedHasLegalPcb == \A n \in Nodes : checked[n] => HasLegalPcb(n)

\* C9: is_checkable(sheet) is true exactly when the sheet's sub-PCB is legal
\* and no ancestor up to and including the root is checked.
C9_CheckableIffLegalAndNoAncestorChecked ==
    phase = "dialog" =>
        \A n \in Nodes :
            is_checkable(n) <=> (HasLegalPcb(n) /\ \A a \in Ancestors(n) : ~checked[a])

\* C10: a click on a tree item (handleSelection) keeps "at most one checked
\* sheet per path from the root": if it held before the click it holds after.
C10_ClickKeepsAtMostOnePerPath ==
    [][((\E n \in Nodes : handleSelection(n)) /\ AtMostOneCheckedPerPath)
           => AtMostOneCheckedPerPath']_vars

----------------------------------------------------------------------------
(* Properties of enforce_position *)

\* The sheet the loop is about to process.
Current == tree_iter(Root)[cursor]

InLoop == phase = "running" /\ cursor \in 1 .. Len(tree_iter(Root))

\* The anchor's path on the target board, for a sheet with a chosen anchor.
AnchorPathOf(n) == identifier(n) \o RoomFootprints(pcb[n])[selected_anchor[pcb[n]]].path

\* The sheet is checked, its sub-PCB is legal and has an anchor, and the
\* anchor's instance is missing from the target board.
AnchorMissing(n) ==
    /\ checked[n] /\ HasLegalPcb(n)
    /\ selected_anchor[pcb[n]] # 0
    /\ AnchorPathOf(n) \notin DOMAIN fps

\* The sheet is checked, its sub-PCB is legal and has an anchor, and the
\* anchor's instance is on the target board.
Placeable(n) ==
    /\ checked[n] /\ HasLegalPcb(n)
    /\ selected_anchor[pcb[n]] # 0
    /\ AnchorPathOf(n) \in DOMAIN fps

\* How many items of kind k the board has in group g.
CountKind(I, g, k) == Len(SelectSeq(I, LAMBDA it : it.group = g /\ it.kind = k))

Place(f) == [pos |-> f.pos, orient |-> f.orient, flipped |-> f.flipped]

\* C3: a second run on the same tree, marks, templates and anchors leaves the
\* board as the first run left it: no group holds more tracks, zones or
\* drawings, and every footprint has the same position, orientation and side.
C3_SecondRunChangesNothing ==
    (phase = "ran" /\ runs = 2) =>
        /\ \A q \in DOMAIN fps : Place(fps[q]) = Place(after1.fps[q])
        /\ \A g \in groups, k \in {"track", "zone", "drawing"} :
               CountKind(items, g, k) <= CountKind(after1.items, g, k)

\* C4: the iteration for a sheet that is unchecked, has no sub-PCB, an
\* illegal sub-PCB, no anchor, or an anchor with no instance on the target
\* board changes nothing on the board: footprints, items and groups stay.
C4_SkippedSheetLeavesBoard ==
    [][(InLoop /\ ~Placeable(Current)) => (board' = board)]_vars

\* C4's case: a checked sheet whose anchor is missing has been passed over in
\* a run that placed another sheet.
C4_Witness ==
    /\ phase = "ran"
    /\ \E n, k \in Nodes :
         outcome[n] = "error" /\ AnchorMissing(n) /\ outcome[k] = "placed"

\* The entries of `errors` that the iteration for sheet n appended.
ErrorsOf(n) == {i \in DOMAIN errors : errSheet[i] = n}

\* C5: a checked sheet whose anchor has no instance on the target board gets
\* exactly one diagnostic, of level ERROR, whose sheet field is that sheet.
C5_AnchorMissingOneErrorNamingSheet ==
    \A n \in Nodes :
        (outcome[n] = "error" /\ AnchorMissing(n)) =>
            /\ Cardinality(ErrorsOf(n)) = 1
            /\ \A i \in ErrorsOf(n) : errors[i].level = ERROR /\ errors[i].sheet = n

\* The sheet's group exists and holds the template's tracks, zones and
\* drawings, and every instance of a template footprint is in it.
FullyPlaced(n) ==
    /\ outcome[n] = "placed"
    /\ group_name(n) \in groups
    /\ CountKind(items, group_name(n), "track") = Len(RoomTracks(pcb[n]))
    /\ CountKind(items, group_name(n), "zone") = Len(RoomZones(pcb[n]))
    /\ CountKind(items, group_name(n), "drawing") = Len(RoomDrawings(pcb[n]))
    /\ \A i \in DOMAIN RoomFootprints(pcb[n]) :
           LET q == identifier(n) \o RoomFootprints(pcb[n])[i].path
           IN q \in DOMAIN fps => fps[q].group = group_name(n)

\* C6: a run ends without an exception, and every checked sheet with a
\* legal sub-PCB, an anchor and the anchor's instance on the board has been
\* placed in full, whatever errors other sheets of the run met.
C6_ErrorStopsOnlyItsSheet ==
    phase = "ran" =>
        /\ raised = "None"
        /\ \A n \in Nodes : Placeable(n) => FullyPlaced(n)

\* C6's case: a run in which a sheet ended in an error and a sheet later in
\* tree_iter was placed.
C6_Witness ==
    /\ phase = "ran"
    /\ \E n, k \in Nodes :
         /\ outcome[n] = "error" /\ outcome[k] = "placed"
         /\ \E i, j \in DOMAIN tree_iter(Root) :
              i < j /\ tree_iter(Root)[i] = n /\ tree_iter(Root)[j] = k

\* C7: enforce_position returns the list of the run's diagnostics.
C7_ReturnsTheDiagnostics ==
    phase = "ran" => (ret.kind = "list" /\ ret.list = errors)

----------------------------------------------------------------------------
(* Properties of handleSelection and of load *)

\* C11: a click on a checked sheet's item unchecks that sheet and changes no
\* other sheet's mark, whatever marks its ancestors and descendants carry.
C11_ClickOnCheckedUnchecksOnlyIt ==
    [][\A n \in Nodes :
          (handleSelection(n) /\ checked[n]) =>
              checked' = [checked EXCEPT ![n] = FALSE]]_vars

\* C12: a click on a sheet that is neither checkable nor checked changes no
\* mark, raises nothing and leaves a diagnostic in the log.
C12_ClickOnUncheckableIsLoggedNoOp ==
    [][\A n \in Nodes :
          (handleSelection(n) /\ ~is_checkable(n) /\ ~checked[n]) =>
              (checked' = checked /\ raised' = "None" /\ log' # << >>)]_vars

\* C13: when load has read the marks of a configuration, whatever it holds,
\* no checked sheet has a checked ancestor.
C13_LoadLeavesAtMostOnePerPath ==
    (lastOp = "load" /\ phase = "loaded") => AtMostOneCheckedPerPath

----------------------------------------------------------------------------
(* Properties of the footprints under enforce_position *)

\* C14: no step of a run takes a footprint off the target board or adds one:
\* the set of footprint paths stays as it is.
C14_FootprintsAreNeverDeleted ==
    [][DOMAIN fps' = DOMAIN fps]_vars

\* C14's case: a sheet has been placed on a board that an earlier session
\* left groups on, and the stale track of the sheet's group has been removed.
C14_Witness ==
    /\ phase = "ran"
    /\ ForeignGroup \in groups
    /\ \E n \in Nodes :
         /\ outcome[n] = "placed"
         /\ \A i \in DOMAIN items : items[i] # UserTrack(group_name(n))
         /\ \E q \in DOMAIN fps : fps[q].group = group_name(n)

----------------------------------------------------------------------------
(* PCBRoom on its own: a room's footprints, get_heuristic_anchor_ref and   *)
(* set_anchor_ref called on it.                                            *)

MaxFps == 3

\* fp.GetReference() of the room's footprints
RoomRefs == { <<"U", "1">>, <<"R", "1">>, <<"R", "2">> }

\* fp.GetArea(), in tenths of a square millimetre
RoomAreas == {1, 10}

\* subboard.GetFootprints(): up to MaxFps footprints, in any order
RoomLists ==
    UNION { [1 .. k -> [ref : RoomRefs, area : RoomAreas]] : k \in 0 .. MaxFps }

\* The references set_anchor_ref is called with: the room's, and one that no
\* footprint has.
AnchorLabels == RoomRefs \cup { <<"X", "9">> }

\* The variables of RunActual, while a method is called on its own.
NoSession ==
    /\ parent = [n \in Nodes |-> Root]
    /\ pcb = [n \in Nodes |-> "None"]
    /\ checked = [n \in Nodes |-> FALSE]
    /\ list_ref = [n \in Nodes |-> FALSE]
    /\ selected_anchor = [r \in RoomIds |-> 0]
    /\ phase = "call"
    /\ lastOp = "init"
    /\ raised = "None"
    /\ name = SheetNames
    /\ fps = << >>
    /\ items = << >>
    /\ groups = {}
    /\ errors = << >>
    /\ errSheet = << >>
    /\ cursor = 0
    /\ outcome = [n \in Nodes |-> "pending"]
    /\ ret = [kind |-> "pending", list |-> << >>]
    /\ runs = 0
    /\ after1 = NoBoard
    /\ log = << >>

\* PCBRoom.__init__: the board is loaded, selected_anchor is None.
RoomInit ==
    /\ NoSession
    /\ \E l \in RoomLists : arg = [op |-> "PCBRoom", fpl |-> l]
    /\ result = [op |-> "__init__", anchor |-> 0]

\* room.get_heuristic_anchor_ref()
HeuristicAnchor ==
    /\ arg.op = "PCBRoom"
    /\ result' = [op |-> "get_heuristic_anchor_ref", anchor |-> result.anchor,
                  ret |-> heuristic_of(arg.fpl)]
    /\ UNCHANGED <<selVars, name, fps, items, groups, errors, errSheet, cursor,
                   outcome, ret, runs, after1, arg>>

\* room.set_anchor_ref(label)
SetAnchor(label) ==
    /\ arg.op = "PCBRoom"
    /\ result' = [op |-> "set_anchor_ref", label |-> label, old |-> result.anchor,
                  anchor |-> set_anchor_of(arg.fpl, label, result.anchor),
                  raised |-> "None"]
    /\ UNCHANGED <<selVars, name, fps, items, groups, errors, errSheet, cursor,
                   outcome, ret, runs, after1, arg>>

RoomNext == HeuristicAnchor \/ \E label \in AnchorLabels : SetAnchor(label)

SpecRoom == RoomInit /\ [][RoomNext]_vars

\* The same footprints in every order of enumeration.
Reorderings(fpl) ==
    { [i \in DOMAIN fpl |-> fpl[f[i]]] : f \in Permutations(DOMAIN fpl) }

\* The footprints whose tuple (-area, count of the prefix, reference) is the
\* least of the room.
LeastTuple(fpl) ==
    { i \in DOMAIN fpl :
        \A j \in DOMAIN fpl : ~HeurLess(HeurTuple(fpl, j), HeurTuple(fpl, i)) }

\* C15: for a room with footprints the heuristic returns the reference of a
\* footprint whose tuple (-area, count of the prefix, reference) is the least,
\* and returns the same reference for every order of the same footprints.
C15_HeuristicIsLeastTupleInAnyOrder ==
    (result.op = "get_heuristic_anchor_ref" /\ arg.fpl # << >>) =>
        /\ result.ret.raised = "None"
        /\ \E i \in LeastTuple(arg.fpl) : arg.fpl[i].ref = result.ret.ref
        /\ \A l \in Reorderings(arg.fpl) : heuristic_of(l).ref = result.ret.ref

\* C15's case: R1 of area 0.1 enumerated before U1 of area 1.0 gives U1.
C15_Witness ==
    /\ result.op = "get_heuristic_anchor_ref"
    /\ arg.fpl = << [ref |-> <<"R", "1">>, area |-> 1],
                    [ref |-> <<"U", "1">>, area |-> 10] >>
    /\ result.ret.ref = <<"U", "1">>

\* C16: load completes for a tree that has an empty room: the heuristic gives
\* no reference for it and raises nothing.
C16_LoadCompletesWithEmptyRoom ==
    (lastOp = "load" /\ "R0" \in pcb_rooms) => (phase = "loaded" /\ raised = "None")

\* C17: after set_anchor_ref(label) the anchor is a footprint of that
\* reference when the room has one; when it has none the anchor is the one
\* selected before (or none), and nothing is raised.
C17_SetAnchorRefOrNoOp ==
    result.op = "set_anchor_ref" =>
        /\ result.raised = "None"
        /\ IF \E i \in DOMAIN arg.fpl : arg.fpl[i].ref = result.label
           THEN /\ result.anchor \in DOMAIN arg.fpl
                /\ arg.fpl[result.anchor].ref = result.label
           ELSE result.anchor = result.old

\* C17's case: an anchor was selected, then set_anchor_ref was called with a
\* reference no footprint has.
C17_Witness ==
    /\ result.op = "set_anchor_ref"
    /\ result.old # 0
    /\ \A i \in DOMAIN arg.fpl : arg.fpl[i].ref # result.label

----------------------------------------------------------------------------
(* PositionTransform on its own: a transform built from two anchors,       *)
(* applied to a point and an angle, and the transform built from the       *)
(* swapped anchors applied to what came out.                               *)

MaxCoord == 2

Coords == 0 .. MaxCoord

\* GetOrientationDegrees() of an anchor
Angles == {0, 90, 180, 270}

\* An anchor footprint: GetPosition() and GetOrientation()
Anchors == [pos : Coords \X Coords, orient : Angles]

\* PositionTransform(template, mutate) and the arguments of translate and
\* orient.
TransformInit ==
    /\ NoSession
    /\ \E T \in Anchors, M \in Anchors, p \in Coords \X Coords, a \in {0, 90} :
         arg = [op |-> "PositionTransform", T |-> T, M |-> M, p |-> p, a |-> a]
    /\ result = [op |-> "__init__"]

\* transform.translate(p) and transform.orient(a)
ApplyTransform ==
    /\ arg.op = "PositionTransform"
    /\ result.op = "__init__"
    /\ result' = [op |-> "transform",
                  p  |-> translate(arg.T, 1, << arg.M >>, arg.p),
                  a  |-> orient(arg.T, 1, << arg.M >>, arg.a)]
    /\ UNCHANGED <<selVars, name, fps, items, groups, errors, errSheet, cursor,
                   outcome, ret, runs, after1, arg>>

\* PositionTransform(mutate, template) applied to the outcome
ApplyInverse ==
    /\ arg.op = "PositionTransform"
    /\ result.op = "transform"
    /\ result' = [op |-> "inverse",
                  p  |-> translate(arg.M, 1, << arg.T >>, result.p),
                  a  |-> orient(arg.M, 1, << arg.T >>, result.a)]
    /\ UNCHANGED <<selVars, name, fps, items, groups, errors, errSheet, cursor,
                   outcome, ret, runs, after1, arg>>

TransformNext == ApplyTransform \/ ApplyInverse

SpecTransform == TransformInit /\ [][TransformNext]_vars

\* C18: when the template anchor and the target anchor have the same
\* position and orientation, translate returns the point it is given and
\* orient the angle it is given.
C18_SameAnchorsGiveIdentity ==
    (result.op = "transform" /\ arg.T = arg.M) =>
        (result.p = arg.p /\ result.a = arg.a)

\* C18's case: a transform of equal anchors, turned by 90 degrees, applied to
\* a point away from the anchor.
C18_Witness ==
    /\ result.op = "transform"
    /\ arg.T = arg.M
    /\ arg.T.orient = 90
    /\ arg.p # arg.T.pos

\* C19: the transform of (T, M) followed by the transform of (M, T) gives
\* back the point and the angle exactly, the orientations being multiples of
\* 90 degrees.
C19_InverseGivesBackExactly ==
    result.op = "inverse" => (result.p = arg.p /\ result.a = arg.a)

----------------------------------------------------------------------------
(* Properties of the flip *)

\* The instances on the board of the footprints of sheet n's template, each
\* with its template footprint's index.
Instances(n) ==
    { <<identifier(n) \o RoomFootprints(pcb[n])[i].path, i>> :
        i \in {j \in DOMAIN RoomFootprints(pcb[n]) :
                 identifier(n) \o RoomFootprints(pcb[n])[j].path \in DOMAIN fps} }

\* C20: after every run each instance of a placed sheet is on the side its
\* template footprint is on, and the second run leaves every such instance on
\* the side the first run put it on.
C20_FlipFollowsTemplate ==
    phase = "ran" =>
        \A n \in Nodes : outcome[n] = "placed" =>
            \A qi \in Instances(n) :
                /\ fps[qi[1]].flipped = RoomFootprints(pcb[n])[qi[2]].flipped
                /\ runs = 2 => fps[qi[1]].flipped = after1.fps[qi[1]].flipped

\* C20's case: two runs on a board whose footprints started on the back
\* side (a footprint no template has is still there), with a sheet placed.
C20_Witness ==
    /\ phase = "ran"
    /\ runs = 2
    /\ \E q \in DOMAIN fps : fps[q].flipped
    /\ \E n \in Nodes : outcome[n] = "placed" /\ Instances(n) # {}

----------------------------------------------------------------------------
(* Properties of the groups, the skipped footprints and the anchor        *)

\* The instances of sheet n's template footprints that are in another
\* group than the sheet's.
InWrongGroup(n) ==
    { qi \in Instances(n) : fps[qi[1]].group \notin {NoGroup, group_name(n)} }

\* How many tracks, drawings and zones the sheet's template has.
TemplateItemCount(n) ==
    Len(RoomTracks(pcb[n])) + Len(RoomDrawings(pcb[n])) + Len(RoomZones(pcb[n]))

WrongGroupTitles ==
    {"anchor footprint is in the wrong group", "footprint is in the wrong group"}

\* C27: the iteration that places a sheet ends with the anchor's instance,
\* every instance of a template footprint and every track, drawing and zone
\* it added in the sheet's group (the group named after the sheet's human
\* path), which is on the board; the group holds no other track, drawing or
\* zone of the kinds the template has; for every instance that was in
\* another group there is one diagnostic saying so (the anchor's with its own
\* title), and the iteration goes on to the end and to the next sheet.
C27_PlacedItemsAreInTheSheetsGroup ==
    [][(InLoop /\ Placeable(Current)) =>
         LET n    == Current
             g    == group_name(n)
             k    == TemplateItemCount(n)
             news == SubSeq(errors', Len(errors) + 1, Len(errors'))
         IN /\ outcome'[n] = "placed" /\ cursor' = cursor + 1
            /\ g \in groups'
            /\ fps'[AnchorPathOf(n)].group = g
            /\ \A qi \in Instances(n) : fps'[qi[1]].group = g
            /\ Len(items') >= k
            /\ \A j \in (Len(items') - k + 1) .. Len(items') : items'[j].group = g
            /\ CountKind(items', g, "track") = Len(RoomTracks(pcb[n]))
            /\ CountKind(items', g, "drawing") = Len(RoomDrawings(pcb[n]))
            /\ CountKind(items', g, "zone") = Len(RoomZones(pcb[n]))
            /\ Len(SelectSeq(news, LAMBDA e : e.title \in WrongGroupTitles))
                   = Cardinality(InWrongGroup(n))
            /\ (fps[AnchorPathOf(n)].group \notin {NoGroup, g}) <=>
                   (\E j \in DOMAIN news :
                        news[j].title = "anchor footprint is in the wrong group")
    ]_vars

\* C27's case: a run has placed a sheet whose anchor's instance was in a
\* group of the user's, on a board where another instance of the sheet was
\* already in the sheet's group, and the template has tracks.
C27_Witness ==
    /\ phase = "ran" /\ runs = 1
    /\ \E n \in Nodes :
         /\ FullyPlaced(n)
         /\ Len(RoomTracks(pcb[n])) > 0
         /\ Cardinality(Instances(n)) >= 2
         /\ \E i \in ErrorsOf(n) :
                errors[i].title = "anchor footprint is in the wrong group"
         /\ \A qi \in Instances(n) : fps[qi[1]].group = group_name(n)

\* The template footprints of sheet n that have no instance on the board.
MissingOf(n) ==
    { i \in DOMAIN RoomFootprints(pcb[n]) :
        identifier(n) \o RoomFootprints(pcb[n])[i].path \notin DOMAIN fps }

\* The board's footprints with an instance for each of them, standing where
\* the anchor's instance stands.
WithMissing(n) ==
    [q \in DOMAIN fps \cup
            { identifier(n) \o RoomFootprints(pcb[n])[i].path : i \in MissingOf(n) } |->
        IF q \in DOMAIN fps THEN fps[q] ELSE fps[AnchorPathOf(n)]]

\* C28: when a sheet is placed and some template footprints have no instance
\* on the board, the iteration appends for each of them exactly one
\* diagnostic of level WARNING naming it, and no other warning; every
\* instance that is there ends where it would have ended with nothing
\* missing, and the tracks, drawings and zones are the same as then.
C28_MissingFootprintIsSkippedAlone ==
    [][(InLoop /\ Placeable(Current)) =>
         LET n    == Current
             news == SubSeq(errors', Len(errors) + 1, Len(errors'))
             full == place_sheet(n, WithMissing(n), items, groups)
         IN /\ outcome'[n] = "placed"
            /\ \A i \in MissingOf(n) :
                   Len(SelectSeq(news, LAMBDA e :
                           /\ e.level = WARNING
                           /\ e.title = "footprint not found, skipping"
                           /\ e.footprint = RoomFootprints(pcb[n])[i].ref)) = 1
            /\ Len(SelectSeq(news, LAMBDA e : e.level = WARNING))
                   = Cardinality(MissingOf(n))
            /\ \A q \in DOMAIN fps : fps'[q] = full.fps[q]
            /\ DOMAIN fps' = DOMAIN fps
            /\ items' = full.items
            /\ Len(items') >= TemplateItemCount(n)
    ]_vars

\* C28's case: a run has placed a sheet although the first footprint of its
\* template had no instance; the footprint after it has one, which the run
\* turned over, and the template has tracks, drawings and zones.
C28_Witness ==
    /\ phase = "ran" /\ runs = 1
    /\ \E n \in Nodes :
         /\ outcome[n] = "placed"
         /\ 1 \in MissingOf(n)
         /\ Cardinality(Instances(n)) = 1
         /\ \E i \in ErrorsOf(n) :
                errors[i].level = WARNING
                /\ errors[i].footprint = RoomFootprints(pcb[n])[1].ref
         /\ \A qi \in Instances(n) : fps[qi[1]].orient = 270 /\ ~fps[qi[1]].flipped
         /\ CountKind(items, group_name(n), "track") > 0
         /\ CountKind(items, group_name(n), "zone") > 0
         /\ CountKind(items, group_name(n), "drawing") > 0

\* C29: the iteration that places a sheet whose template anchor and target
\* anchor are on the same side leaves the target anchor's position,
\* orientation and side as they were, and every instance, track, drawing
\* and zone is placed by the translation and rotation that the anchors give
\* before the iteration.
C29_AnchorStaysWhenSidesAgree ==
    [][(/\ InLoop /\ Placeable(Current)
        /\ RoomFootprints(pcb[Current])[selected_anchor[pcb[Current]]].flipped
               = fps[AnchorPathOf(Current)].flipped) =>
         LET n == Current
             r == pcb[n]
             t == RoomFootprints(r)[selected_anchor[r]]
             m == AnchorPathOf(n)
             g == group_name(n)
             k == TemplateItemCount(n)
         IN /\ Place(fps'[m]) = Place(fps[m])
            /\ \A qi \in Instances(n) :
                   /\ fps'[qi[1]].pos = translate(t, m, fps, RoomFootprints(r)[qi[2]].pos)
                   /\ fps'[qi[1]].orient =
                          Norm360(orient(t, m, fps, RoomFootprints(r)[qi[2]].orient))
            /\ Len(items') >= k
            /\ SubSeq(items', Len(items') - k + 1, Len(items'))
                   = copy_traces(r, t, m, fps, g) \o copy_drawings(r, t, m, fps, g)
                        \o copy_zones(r, t, m, fps, g)
    ]_vars

\* C29's case: a run has placed a sheet on a board whose footprints were on
\* the template's side and turned by 90 degrees; the sheet has its anchor's
\* instance and another one, and the template has tracks.
C29_Witness ==
    /\ phase = "ran" /\ runs = 1
    /\ \E n \in Nodes :
         /\ outcome[n] = "placed"
         /\ Cardinality(Instances(n)) >= 2
         /\ fps[AnchorPathOf(n)].orient = 90
         /\ ~fps[AnchorPathOf(n)].flipped
         /\ ~RoomFootprints(pcb[n])[selected_anchor[pcb[n]]].flipped
         /\ \A q \in DOMAIN fps : ~fps[q].flipped
         /\ CountKind(items, group_name(n), "track") > 0

----------------------------------------------------------------------------
(* get_sheet_hierarchy on its own: the tree built from the footprints of a *)
(* board, in the order the board enumerates them, and the loop of          *)
(* enforce_position walking the tree.  Here a string is the sequence of    *)
(* its characters, a sheet is known by its key (the tuple of sheet ids     *)
(* from the root), and the sheets are kept in the order they were created, *)
(* which is the insertion order of every children dict.                    *)

MaxBoardFps == 3

\* s.split(sep)
RECURSIVE split(_, _)
split(s, sep) ==
    IF \A i \in DOMAIN s : s[i] # sep THEN << s >>
    ELSE LET k == CHOOSE i \in DOMAIN s : s[i] = sep /\ \A j \in 1 .. (i - 1) : s[j] # sep
         IN << SubSeq(s, 1, k - 1) >> \o split(SubSeq(s, k + 1, Len(s)), sep)

\* A variant of get_sheet_key_from_footprint that keeps the footprint's own
\* id in the key: tuple(key[1:]).
get_sheet_key_keeps_last(fp) ==
    LET key == split(fp.path, "/")
    IN IF Len(key) <= 1 THEN [kind |-> "None", key |-> << >>]
       ELSE IF key[1] # << >> THEN [kind |-> "AssertionError", key |-> << >>]
       ELSE [kind |-> "key", key |-> SubSeq(key, 2, Len(key))]

\* get_sheet_key_from_footprint: None for a footprint that is on no sheet,
\* else tuple(key[1:-1]); the assert fails when the path does not start with
\* the separator.
get_sheet_key_from_footprint(fp) ==
    LET key == split(fp.path, "/")
    IN IF Len(key) <= 1 THEN [kind |-> "None", key |-> << >>]
       ELSE IF key[1] # << >> THEN [kind |-> "AssertionError", key |-> << >>]
       ELSE [kind |-> "key", key |-> SubSeq(key, 2, Len(key) - 1)]

\* SchSheet.name is None (a name is the sequence of its characters).
NoSheetname == << "None" >>

\* SchSheet.__init__: no file, no name, no sub-PCB.
SchSheet(key) == [key |-> key, file |-> "None", name |-> NoSheetname, pcb |-> "None"]

\* SchSheet.has_metadata
has_metadata(s) == s.file # "None" /\ s.name # NoSheetname

\* root_sheet.get(key, create=True), the first k - 1 ids of the key already
\* walked: a sheet is created for every prefix of the key that has none.
RECURSIVE SchSheet_get(_, _, _)
SchSheet_get(sheets, key, k) ==
    IF k > Len(key) THEN sheets
    ELSE SchSheet_get(IF \E i \in DOMAIN sheets : sheets[i].key = SubSeq(key, 1, k)
                      THEN sheets
                      ELSE Append(sheets, SchSheet(SubSeq(key, 1, k))),
                      key, k + 1)

\* pcb_rooms[sheet_file] = PCBRoom(pcb_file) if pcb_file.exists() else None,
\* for a file that is not in pcb_rooms yet.  The room of file f is written f.
find_room(rooms, f, disk) ==
    IF f \in DOMAIN rooms THEN rooms
    ELSE [g \in DOMAIN rooms \cup {f} |->
             IF g # f THEN rooms[g] ELSE IF disk[f] = "valid" THEN f ELSE "None"]

\* A variant of set_metadata's caller in which the last footprint of a scope
\* supplies the metadata and the binding.
bind_anyway(S, sheets1, c, fp, disk, fail) ==
    IF fp.sheetfile = "KeyError" THEN [S EXCEPT !.sheets = sheets1]
    ELSE IF fp.sheetfile \notin DOMAIN S.rooms /\ disk[fp.sheetfile] = "corrupt"
    THEN [sheets |-> [sheets1 EXCEPT ![c].file = fp.sheetfile, ![c].name = fp.sheetname],
          rooms  |-> S.rooms, raised |-> fail]
    ELSE [sheets |-> [sheets1 EXCEPT ![c].file = fp.sheetfile,
                                      ![c].name = fp.sheetname,
                                      ![c].pcb = find_room(S.rooms, fp.sheetfile, disk)[fp.sheetfile]],
          rooms  |-> find_room(S.rooms, fp.sheetfile, disk),
          raised |-> "None"]

\* The body of the loop of get_sheet_hierarchy for a footprint with a key,
\* after root_sheet.get: sheets1 are the sheets, c the index of curr_sheet.
\* A sheet with metadata is left alone and so is one whose footprint gives
\* no Sheetfile (KeyError); else the metadata is set and the sheet is bound
\* to the room of its file.  PCBRoom(pcb_file) on a file that is no board
\* ends the function with the exception `fail`.
bind_sheet(S, sheets1, c, fp, disk, fail) ==
    IF has_metadata(sheets1[c]) \/ fp.sheetfile = "KeyError"
    THEN [S EXCEPT !.sheets = sheets1]
    ELSE IF fp.sheetfile \notin DOMAIN S.rooms /\ disk[fp.sheetfile] = "corrupt"
    THEN [sheets |-> [sheets1 EXCEPT ![c].file = fp.sheetfile, ![c].name = fp.sheetname],
          rooms  |-> S.rooms, raised |-> fail]
    ELSE [sheets |-> [sheets1 EXCEPT ![c].file = fp.sheetfile,
                                      ![c].name = fp.sheetname,
                                      ![c].pcb = find_room(S.rooms, fp.sheetfile, disk)[fp.sheetfile]],
          rooms  |-> find_room(S.rooms, fp.sheetfile, disk),
          raised |-> "None"]

\* The index of the sheet with that key.
sheet_at(sheets, key) == CHOOSE i \in DOMAIN sheets : sheets[i].key = key

\* curr_sheet = root_sheet.get(key, create=True) and the rest of the body.
visit_footprint(S, key, fp, disk, fail) ==
    bind_sheet(S, SchSheet_get(S.sheets, key, 1),
               sheet_at(SchSheet_get(S.sheets, key, 1), key), fp, disk, fail)

\* One iteration of `for fp in board.GetFootprints()`.  S is [sheets, rooms,
\* raised].
build_step(S, fp, disk, fail) ==
    IF get_sheet_key_from_footprint(fp).kind = "None" THEN S
    ELSE IF get_sheet_key_from_footprint(fp).kind = "AssertionError"
    THEN [S EXCEPT !.raised = "AssertionError"]
    ELSE visit_footprint(S, get_sheet_key_from_footprint(fp).key, fp, disk, fail)

\* root_sheet = SchSheet("", None) and pcb_rooms = {}
NewBuild == [sheets |-> << SchSheet(<< >>) >>, rooms |-> [f \in {} |-> "None"],
             raised |-> "None"]

\* get_sheet_hierarchy from the i-th footprint on.
RECURSIVE get_sheet_hierarchy_from(_, _, _, _, _)
get_sheet_hierarchy_from(S, fpl, i, disk, fail) ==
    IF i > Len(fpl) \/ S.raised # "None" THEN S
    ELSE get_sheet_hierarchy_from(build_step(S, fpl[i], disk, fail), fpl, i + 1, disk, fail)

get_sheet_hierarchy(fpl, disk, fail) ==
    get_sheet_hierarchy_from(NewBuild, fpl, 1, disk, fail)

\* The sheetid of a sheet below the root: the last id of its key.
sheetid_of(s) == s.key[Len(s.key)]

\* self.children of the sheet with that key, in insertion order.
children_of(sheets, key) ==
    SelectSeq(sheets, LAMBDA s : /\ Len(s.key) = Len(key) + 1
                                 /\ SubSeq(s.key, 1, Len(key)) = key)

\* A variant of sorted(children.items()) that leaves the children in
\* insertion order, as children.values() gives them.
insertion_order(cs) == cs

\* sorted(self.children.items()): by sheetid, as str compares.
RECURSIVE sorted_items(_)
sorted_items(cs) ==
    IF cs = << >> THEN << >>
    ELSE LET m == CHOOSE i \in DOMAIN cs :
                     \A j \in DOMAIN cs : ~StrLess(sheetid_of(cs[j]), sheetid_of(cs[i]))
         IN << cs[m] >> \o sorted_items(SelectSeq(cs, LAMBDA s : s.key # cs[m].key))

\* SchSheet.tree_iter on the sheet with that key: the keys of the sheets in
\* the order they are yielded.
RECURSIVE tree_iter_from(_, _)
RECURSIVE tree_iter_each(_, _)
tree_iter_each(sheets, cs) ==
    IF cs = << >> THEN << >>
    ELSE tree_iter_from(sheets, Head(cs).key) \o tree_iter_each(sheets, Tail(cs))
tree_iter_from(sheets, key) ==
    << key >> \o tree_iter_each(sheets, sorted_items(children_of(sheets, key)))

\* SchSheet.identifier of the sheet with that key: the root's is "", a
\* sheet's is its parent's + "/" + its sheetid.
RECURSIVE identifier_of(_)
identifier_of(key) ==
    IF key = << >> THEN << >>
    ELSE identifier_of(SubSeq(key, 1, Len(key) - 1)) \o << "/" >> \o key[Len(key)]

\* SchSheet.human_name of the sheet s: its name, else the first eight
\* characters of its sheetid (the root's sheetid is "").
human_name_of(s) ==
    IF s.name # NoSheetname THEN s.name
    ELSE IF s.key = << >> THEN << >>
    ELSE SubSeq(sheetid_of(s), 1, IF Len(sheetid_of(s)) < 8 THEN Len(sheetid_of(s)) ELSE 8)

\* SchSheet.human_path of the sheet with that key: the root's is its
\* human_name, a sheet's is its parent's + "/" + its human_name.
RECURSIVE human_path_of(_, _)
human_path_of(sheets, key) ==
    IF key = << >> THEN human_name_of(sheets[sheet_at(sheets, key)])
    ELSE human_path_of(sheets, SubSeq(key, 1, Len(key) - 1)) \o << "/" >>
             \o human_name_of(sheets[sheet_at(sheets, key)])

\* The footprints of the target board: fp.GetPath().AsString(),
\* fp.GetSheetfile() (the file's stem; "KeyError" when there is none) and
\* fp.GetSheetname().  Sheets "9" and "10" hang under the root, "10/9"
\* under "10"; one footprint is on no sheet, one on the root sheet.
\* Sheets "000000001" and "000000002" hold no footprint of their own; each
\* has a sheet "7" of the same schematic, with one footprint.
BoardFootprints ==
    { [path |-> << "/", "9", "/", "U" >>, sheetfile |-> "a", sheetname |-> << "A" >>],
      [path |-> << "/", "9", "/", "R" >>, sheetfile |-> "b", sheetname |-> << "B" >>],
      [path |-> << "/", "1", "0", "/", "9", "/", "H" >>,
           sheetfile |-> "b", sheetname |-> << "B" >>],
      [path |-> << "/", "1", "0", "/", "X" >>, sheetfile |-> "KeyError",
           sheetname |-> NoSheetname],
      [path |-> << >>, sheetfile |-> "a", sheetname |-> << "A" >>],
      [path |-> << "/", "H" >>, sheetfile |-> "b", sheetname |-> << "B" >>],
      [path |-> << "/", "0", "0", "0", "0", "0", "0", "0", "0", "1", "/", "7", "/", "U" >>,
           sheetfile |-> "a", sheetname |-> << "A" >>],
      [path |-> << "/", "0", "0", "0", "0", "0", "0", "0", "0", "2", "/", "7", "/", "U" >>,
           sheetfile |-> "a", sheetname |-> << "A" >>] }

\* board.GetFootprints(): up to MaxBoardFps of them, in any order.
BoardLists ==
    UNION { { l \in [1 .. k -> BoardFootprints] :
                \A i, j \in 1 .. k : l[i] = l[j] => i = j } : k \in 0 .. MaxBoardFps }

\* What is at basedir / sheet_file.with_suffix(".kicad_pcb"): nothing, a
\* board, or (for a.kicad_pcb) a file that is no board.
Disks ==
    { d \in [{"a", "b"} -> {"absent", "valid", "corrupt"}] : d["b"] # "corrupt" }

\* How PCBRoom.__init__ ends on a file that is no board: pcbnew.LoadBoard
\* raises, or returns None and the assert fails.
LoadBoardFailures == {"IOError", "AssertionError"}

\* Where get_sheet_hierarchy is after an iteration that left S, the i-th
\* footprint being the next: an exception ends the function.
build_state(S, i) ==
    [op |-> IF S.raised = "None" THEN "building" ELSE "raised", i |-> i,
     sheets |-> S.sheets, rooms |-> S.rooms, raised |-> S.raised, visited |-> << >>]

\* HierarchicalData(board) is called.
BuildInit ==
    /\ NoSession
    /\ \E l \in BoardLists, d \in Disks :
         arg = [op |-> "get_sheet_hierarchy", fps |-> l, disk |-> d]
    /\ result = build_state(NewBuild, 1)

\* One iteration of the loop over the board's footprints.
BuildStep ==
    /\ arg.op = "get_sheet_hierarchy"
    /\ result.op = "building"
    /\ result.i <= Len(arg.fps)
    /\ \E fail \in LoadBoardFailures :
         result' = build_state(build_step([sheets |-> result.sheets,
                                           rooms |-> result.rooms, raised |-> "None"],
                                          arg.fps[result.i], arg.disk, fail),
                               result.i + 1)
    /\ UNCHANGED <<selVars, name, fps, items, groups, errors, errSheet, cursor,
                   outcome, ret, runs, after1, arg>>

\* return root_sheet, {k: v for k, v in pcb_rooms.items() if v is not None}
BuildReturn ==
    /\ arg.op = "get_sheet_hierarchy"
    /\ result.op = "building"
    /\ result.i > Len(arg.fps)
    /\ result' = [result EXCEPT
                     !.op = "built",
                     !.rooms = [f \in {g \in DOMAIN result.rooms : result.rooms[g] # "None"}
                                   |-> result.rooms[f]]]
    /\ UNCHANGED <<selVars, name, fps, items, groups, errors, errSheet, cursor,
                   outcome, ret, runs, after1, arg>>

\* `for sheet in hd.root_sheet.tree_iter()` of enforce_position takes the
\* next sheet.
VisitNext ==
    /\ arg.op = "get_sheet_hierarchy"
    /\ result.op = "built"
    /\ Len(result.visited) < Len(tree_iter_from(result.sheets, << >>))
    /\ result' = [result EXCEPT !.visited =
                     Append(@, tree_iter_from(result.sheets, << >>)[Len(@) + 1])]
    /\ UNCHANGED <<selVars, name, fps, items, groups, errors, errSheet, cursor,
                   outcome, ret, runs, after1, arg>>

BuildNext == BuildStep \/ BuildReturn \/ VisitNext

SpecBuild == BuildInit /\ [][BuildNext]_vars

\* a is a proper prefix of b: the sheet of key a is an ancestor of b's.
IsAncestorKey(a, b) == Len(a) < Len(b) /\ SubSeq(b, 1, Len(a)) = a

\* The sheets of keys a and b have the same parent.
AreSiblingKeys(a, b) ==
    /\ a # b /\ a # << >> /\ Len(a) = Len(b)
    /\ SubSeq(a, 1, Len(a) - 1) = SubSeq(b, 1, Len(b) - 1)

IsPrefixOf(v, w) == Len(v) <= Len(w) /\ SubSeq(w, 1, Len(v)) = v

\* C21: the loop of enforce_position takes the sheets in pre-order with the
\* children in ascending order of their ids as strings: no sheet twice, a
\* sheet before its descendants, a sheet's descendants before its next
\* sibling, siblings in the order of their ids; and it takes them in the
\* same order whatever order the board gave the footprints in.
C21_VisitsInSortedPreOrder ==
    (arg.op = "get_sheet_hierarchy" /\ result.op = "built") =>
        LET v == result.visited
        IN /\ \A i, j \in DOMAIN v : i < j =>
                 /\ v[i] # v[j]
                 /\ ~IsAncestorKey(v[j], v[i])
                 /\ AreSiblingKeys(v[i], v[j]) =>
                       /\ StrLess(v[i][Len(v[i])], v[j][Len(v[j])])
                       /\ \A k \in DOMAIN v : IsAncestorKey(v[i], v[k]) => k < j
           /\ \A k \in DOMAIN v : \E i \in DOMAIN result.sheets : result.sheets[i].key = v[k]
           /\ Len(v) = Len(result.sheets) =>
                 \A l \in Reorderings(arg.fps) :
                     get_sheet_hierarchy(l, arg.disk, "IOError").raised = "None" =>
                         v = tree_iter_from(
                                 get_sheet_hierarchy(l, arg.disk, "IOError").sheets, << >>)

\* C21's case: sheet "9" was created before sheet "10" and its child, and
\* the loop has taken every sheet: "10" and its child before "9".
C21_Witness ==
    /\ arg.op = "get_sheet_hierarchy" /\ result.op = "built"
    /\ Len(result.visited) = Len(result.sheets)
    /\ \E i, j, k \in DOMAIN result.sheets :
         /\ i < j /\ j < k
         /\ result.sheets[i].key = << <<"9">> >>
         /\ result.sheets[j].key = << <<"1", "0">> >>
         /\ IsAncestorKey(result.sheets[j].key, result.sheets[k].key)
    /\ result.visited[2] = << <<"1", "0">> >>

\* The footprints of the board that are on the sheet with that key and give
\* a Sheetfile, by their place in the board's enumeration.
MetadataBearers(key) ==
    { i \in DOMAIN arg.fps :
        /\ get_sheet_key_from_footprint(arg.fps[i]).kind = "key"
        /\ get_sheet_key_from_footprint(arg.fps[i]).key = key
        /\ arg.fps[i].sheetfile # "KeyError" }

\* The sheet's metadata is that of the first footprint among those (none
\* when there is none).
MetadataIsFirstWriters(s) ==
    IF MetadataBearers(s.key) = {} THEN ~has_metadata(s)
    ELSE LET i == CHOOSE x \in MetadataBearers(s.key) :
                      \A y \in MetadataBearers(s.key) : x <= y
         IN s.file = arg.fps[i].sheetfile /\ s.name = arg.fps[i].sheetname

\* C24: while the tree is built a sheet that has its metadata keeps it, and
\* in the built tree every sheet's file and name are those of the first
\* footprint of that sheet, in the board's order, that gives a Sheetfile.
C24_FirstWriterWins ==
    /\ [](arg.op = "get_sheet_hierarchy" /\ result.op = "built" =>
             \A i \in DOMAIN result.sheets : MetadataIsFirstWriters(result.sheets[i]))
    /\ [][arg.op = "get_sheet_hierarchy" =>
             \A i \in DOMAIN result.sheets :
                 has_metadata(result.sheets[i]) =>
                     /\ i \in DOMAIN result'.sheets
                     /\ result'.sheets[i].key = result.sheets[i].key
                     /\ result'.sheets[i].file = result.sheets[i].file
                     /\ result'.sheets[i].name = result.sheets[i].name]_vars

\* C24's case: sheet "9" has two footprints that give different Sheetfiles,
\* and the tree is built.
C24_Witness ==
    /\ arg.op = "get_sheet_hierarchy" /\ result.op = "built"
    /\ \E i, j \in MetadataBearers(<< <<"9">> >>) :
         i < j /\ arg.fps[i].sheetfile = "b" /\ arg.fps[j].sheetfile = "a"

\* The footprints of the board with a key.
OnSheet == { i \in DOMAIN arg.fps : get_sheet_key_from_footprint(arg.fps[i]).kind = "key" }

\* The pieces of the footprint's path after the leading separator.
Segments(fp) == Tail(split(fp.path, "/"))

\* C25: in the built tree there is a sheet for every prefix of the path of
\* every footprint that is on a sheet, the path's last piece left out; the
\* sheet's identifier + "/" + the last piece is the footprint's path; and
\* every sheet but the root is such a prefix.
C25_TreeIsThePrefixesOfThePaths ==
    (arg.op = "get_sheet_hierarchy" /\ result.op = "built") =>
        /\ \A i \in OnSheet :
              LET seg == Segments(arg.fps[i])
              IN /\ \A k \in 0 .. (Len(seg) - 1) :
                        \E j \in DOMAIN result.sheets :
                            result.sheets[j].key = SubSeq(seg, 1, k)
                 /\ \E j \in DOMAIN result.sheets :
                        identifier_of(result.sheets[j].key) \o << "/" >> \o seg[Len(seg)]
                            = arg.fps[i].path
        /\ \A j \in DOMAIN result.sheets :
              \/ result.sheets[j].key = << >>
              \/ \E i \in OnSheet :
                     \E k \in 1 .. (Len(Segments(arg.fps[i])) - 1) :
                         result.sheets[j].key = SubSeq(Segments(arg.fps[i]), 1, k)
        /\ \A i, j \in DOMAIN result.sheets :
              result.sheets[i].key = result.sheets[j].key => i = j

\* C25's case: the tree is built from a board with a footprint two sheets
\* down and a footprint on no sheet.
C25_Witness ==
    /\ arg.op = "get_sheet_hierarchy" /\ result.op = "built"
    /\ \E i \in OnSheet : Len(Segments(arg.fps[i])) = 3
    /\ \E i \in DOMAIN arg.fps : i \notin OnSheet

\* C26: building the tree never ends with an exception, and in the built
\* tree a sheet whose template file is no board has no sub-PCB, while a
\* sheet whose template file is a board is bound to it.
C26_CorruptTemplateUnbindsOnlyItsSheet ==
    arg.op = "get_sheet_hierarchy" =>
        /\ result.op # "raised"
        /\ result.op = "built" =>
              \A i \in DOMAIN result.sheets :
                  has_metadata(result.sheets[i]) =>
                      result.sheets[i].pcb =
                          IF arg.disk[result.sheets[i].file] = "valid"
                          THEN result.sheets[i].file ELSE "None"

----------------------------------------------------------------------------
(* HierarchicalData.save, and load on the config it has written.           *)

\* PCBRoom.get_anchor_ref, as the value save hands to cfg.set: None when no
\* anchor is selected, else the anchor's reference.
get_anchor_ref(r) ==
    IF selected_anchor[r] = 0 THEN Null
    ELSE JsonOf(RoomFootprints(r)[selected_anchor[r]].ref)

\* HierarchicalData.save(cfg): both sections are cleared and written anew,
\* one entry per room and one per sheet.
save(cfg) ==
    cfg_set_each(
        cfg_clear(
            cfg_set_each(cfg_clear(cfg, "subpcb"), "subpcb",
                         [r \in pcb_rooms |-> get_anchor_ref(r)]),
            "sheet"),
        "sheet",
        [k \in {identifier(n) : n \in Nodes} |->
            JsonOf(checked[CHOOSE n \in Nodes : identifier(n) = k])])

\* RunActual after the dialog was closed with Apply: hD.save(cfg), on the
\* config the session began with.  The marks and anchors at that moment are
\* kept next to the config.
Save ==
    /\ phase = "dialog"
    /\ phase' = "saved"
    /\ lastOp' = "save"
    /\ raised' = "None"
    /\ \E a \in CfgAnchors, c \in [Nodes -> BOOLEAN] :
         result' = [op |-> "save", cfg |-> save(ConfigFile(a, c)),
                    checked |-> checked, anchor |-> selected_anchor]
    /\ UNCHANGED <<parent, pcb, checked, list_ref, selected_anchor, log, name, fps,
                   items, groups, errors, errSheet, cursor, outcome, ret, runs,
                   after1, arg>>

\* hD.load(cfg) on the config that save has written, the tree and the rooms
\* being the same.
LoadSaved ==
    /\ phase = "saved"
    /\ lastOp' = "load"
    /\ load(result.cfg)
    /\ UNCHANGED <<parent, pcb, list_ref, log, synVars>>

CfgNext == Next \/ Save \/ LoadSaved

SpecCfg == Init /\ [][CfgNext]_vars

\* C22: after save and then load on the written config every sheet's mark
\* and every room's selected anchor are what they were before the save.
C22_SaveThenLoadRoundTrips ==
    (lastOp = "load" /\ result.op = "save") =>
        /\ phase = "loaded"
        /\ checked = result.checked
        /\ selected_anchor = result.anchor

----------------------------------------------------------------------------
(* Properties of the nets of the regenerated tracks *)

\* The nets of the pads of the template's footprints, pad by pad: U1 and R1
\* of RL are each between the global net GND and the sheet's own net N1.
TemplatePadNets(r, i) == IF r = "RL" THEN << "GND", "N1" >> ELSE << >>

\* The nets of the pads of the instance on sheet n of a template footprint.
TargetPadNets(n, i) == << "GND", LocalNet(n) >>

\* The net correspondence of sheet n: template net to target net, pad by pad
\* over the template footprints that have an instance on the board.
NetMapping(n) ==
    { << TemplatePadNets(pcb[n], qi[2])[k], TargetPadNets(n, qi[2])[k] >> :
        qi \in Instances(n), k \in {1, 2} }

\* The target net of a template net, the unconnected net when the
\* correspondence has none.
Remapped(n, net) ==
    IF \E p \in NetMapping(n) : p[1] = net
    THEN (CHOOSE p \in NetMapping(n) : p[1] = net)[2]
    ELSE ""

\* The tracks the board has in sheet n's group, in the board's order.
TracksOf(n) == SelectSeq(items, LAMBDA it : it.group = group_name(n) /\ it.kind = "track")

\* C23: after a run the tracks of a placed sheet are the template's, one for
\* one, and each is on the target net that corresponds, pad by pad, to its
\* template track's net (the unconnected net when none does).
C23_TracksCarryTheRemappedNet ==
    (phase = "ran" /\ runs = 1) =>
        \A n \in Nodes : outcome[n] = "placed" =>
            /\ Len(TracksOf(n)) = Len(RoomTracks(pcb[n]))
            /\ \A i \in DOMAIN TracksOf(n) :
                   TracksOf(n)[i].net = Remapped(n, RoomTracks(pcb[n])[i].net)

----------------------------------------------------------------------------
(* Properties of the group names *)

\* The sheets of the built tree that are bound to a room: the ones a run can
\* place.
BoundSheets == { i \in DOMAIN result.sheets : result.sheets[i].pcb # "None" }

\* C30: in a built tree two different sheets that are bound to a room have
\* different human paths, so the groups named after them are different and
\* clearing one sheet's group touches nothing of the other's.
C30_GroupNamesAreDistinct ==
    (arg.op = "get_sheet_hierarchy" /\ result.op = "built") =>
        \A i, j \in BoundSheets :
            i # j => human_path_of(result.sheets, result.sheets[i].key)
                       # human_path_of(result.sheets, result.sheets[j].key)

====
